---- MODULE Spec2Model ----
(***************************************************************************)
(* Modbus-RTU transaction layer of PZEMPlus (class RS485) and the device    *)
(* accessors built on it (PZEM004T, PZEM6L24).                               *)
(*                                                                           *)
(* One transaction is a synchronous call; it is split into steps at the      *)
(* points where the serial stream, the direction pin or the millisecond      *)
(* clock are touched, so that the bus (Deliver) and the clock (Tick) can     *)
(* interleave with it exactly where they can in the program.                 *)
(*                                                                           *)
(* The program only ever uses differences of millis(), so the clock is       *)
(* counted from the entry of the running call.  A call is made when the bus  *)
(* has delivered all it had: bytes that arrive late are modelled as garbage  *)
(* in front of the next reply, bytes that arrived early as stale contents of *)
(* the input stream.                                                         *)
(***************************************************************************)
EXTENDS Integers, Sequences, FiniteSets, TLC

(***************************************************************************)
(* Fixed-width arithmetic                                                    *)
(***************************************************************************)
U8(x)  == x % 256
Min(a, b) == IF a < b THEN a ELSE b

RECURSIVE BitXor(_, _)
BitXor(a, b) ==
    IF a = 0 THEN b
    ELSE IF b = 0 THEN a
    ELSE (((a % 2) + (b % 2)) % 2) + 2 * BitXor(a \div 2, b \div 2)

RECURSIVE BitAnd(_, _)
BitAnd(a, b) ==
    IF a = 0 \/ b = 0 THEN 0
    ELSE ((a % 2) * (b % 2)) + 2 * BitAnd(a \div 2, b \div 2)

RECURSIVE BitOr(_, _)
BitOr(a, b) ==
    IF a = 0 THEN b
    ELSE IF b = 0 THEN a
    ELSE (IF a % 2 = 1 \/ b % 2 = 1 THEN 1 ELSE 0) + 2 * BitOr(a \div 2, b \div 2)

HiByte(w) == BitAnd(w \div 256, 255)
LoByte(w) == BitAnd(w, 255)

(***************************************************************************)
(* CRC16 engine                                                              *)
(***************************************************************************)
\* x with the bit of weight p inverted
FlipBit(x, p) == IF (x \div p) % 2 = 1 THEN x - p ELSE x + p

\* x ^ 0xA001: the polynomial has the bits of weight 1, 8192 and 32768
XorPoly(x) == FlipBit(FlipBit(FlipBit(x, 1), 8192), 32768)

\* the eight shift/xor rounds applied to crc after one byte was xored in
RECURSIVE CrcRounds(_, _)
CrcRounds(crc, j) ==
    IF j = 0 THEN crc
    ELSE CrcRounds(IF crc % 2 = 1 THEN XorPoly(crc \div 2) ELSE crc \div 2, j - 1)

\* the byte loop over data[lo .. hi-1] (0-based; data is the 1-based sequence
\* of the array), split in halves to keep the evaluation shallow
RECURSIVE CrcRange(_, _, _, _)
CrcRange(data, lo, hi, crc) ==
    IF crc < 0 \/ hi <= lo THEN crc
    ELSE IF hi = lo + 1 THEN CrcRounds(BitXor(crc, data[hi]), 8)
    ELSE LET mid == (lo + hi) \div 2
         IN  CrcRange(data, mid, hi, CrcRange(data, lo, mid, crc))

calculateCRC16(data, length) == CrcRange(data, 0, length, 65535)

\* the same with the trailing pair taken high byte first
verifyCRC16HighFirst(data, length) ==
    IF length < 2 THEN FALSE
    ELSE LET calculatedCRC == calculateCRC16(data, length - 2)
             receivedCRC   == BitOr(data[length - 1] * 256, data[length])
         IN  calculatedCRC = receivedCRC

verifyCRC16(data, length) ==
    IF length < 2 THEN FALSE
    ELSE LET calculatedCRC == calculateCRC16(data, length - 2)
             receivedCRC   == BitOr(data[length] * 256, data[length - 1])
         IN  calculatedCRC = receivedCRC

\* a frame body followed by its CRC, low byte first
WithCRC(body) ==
    LET crc == calculateCRC16(body, Len(body))
    IN  body \o <<LoByte(crc), HiByte(crc)>>


(***************************************************************************)
(* Program constants                                                         *)
(***************************************************************************)
MODBUS_READ_HOLDING_REGISTERS   == 3
MODBUS_READ_INPUT_REGISTERS     == 4
MODBUS_WRITE_SINGLE_REGISTER    == 6
MODBUS_WRITE_MULTIPLE_REGISTERS == 16
MODBUS_RESET_ENERGY             == 66

PZEM_VOLTAGE_REG == 0
PZEM_ADDRESS_REG == 2
PZEM_CURRENT_RANGE_REG  == 3
PZEM_CURRENT_RANGE_100A == 0
PZEM_CURRENT_RANGE_50A  == 1
PZEM_CURRENT_RANGE_200A == 2
PZEM_CURRENT_RANGE_300A == 3

DefaultSlaveAddr       == 248   \* slaveAddr = 0xF8 of the device constructors
DefaultResponseTimeout == 100   \* _responseTimeout(100)
WriteTimeout           == 300   \* while (millis() - startTime < 300)
IdleGap                == 10    \* (millis() - lastByteTime) > 10
PostWriteDelay         == 10    \* delay(10) after flush
SettleDelay            == 1     \* delay(1) in enableTransmit / enableReceive
ReadBufferSize         == 256   \* uint8_t response[256]
RequestBufferSize      == 256   \* uint8_t request[256]
SAMPLE_TIME            == 0     \* #define SAMPLE_TIME 0
ReadAllRegs            == 9     \* readInputRegisters(.., PZEM_VOLTAGE_REG, 9, data)

\* _rs485_en(-1) stored in a uint8_t member
UnsetEnable == U8(0 - 1)

\* _rs485_en(-1) stored in the int8_t member of the other RS485.h
UnsetEnableSigned == 0 - 1

(***************************************************************************)
(* Bounds of the model                                                       *)
(***************************************************************************)
MaxTicks   == 1   \* clock advances observed while a receive loop runs
MaxGarbage == 1   \* stale bytes in front of a reply
MaxCrcLen  == 2   \* bytes of a sequence handed to calculateCRC16
MaxAge     == 100 \* milliseconds since _lastReadTime that are told apart

TickSteps   == {IdleGap, IdleGap + 1}  \* milliseconds between two polls of the loop
SampleTimes == {SAMPLE_TIME, MaxAge}              \* values handed to setSampleTime
WaitSteps   == {50}                               \* milliseconds between two calls
Timeouts    == {50, DefaultResponseTimeout}   \* values handed to setTimeouts
EnablePins  == {4}                     \* pins handed to setEnable
Pins        == EnablePins \cup {UnsetEnable}
GarbageBytes == {85, DefaultSlaveAddr} \* stale bytes on the bus
UninitBytes == {0, 132}                \* contents of a never-written stack byte
RegValues   == <<2200, 65526, 65535, 1, 2, 3, 4, 5, 6>>  \* registers a device holds
CrcBytes    == {0, 1, DefaultSlaveAddr, 255}  \* bytes of those sequences
RangeInputs == {0, 50, 100, 150, 200, 300}        \* values handed to setCurrentRange
RangeRegisters == 0..4                            \* contents of the range register
Unwritten   == 0 - 1                   \* a caller's uint16 slot this call never wrote

(***************************************************************************)
(* State                                                                     *)
(***************************************************************************)
VARIABLES
    now,              \* millis(), counted from the entry of the running call
    responseTimeout,  \* RS485::_responseTimeout
    rs485_en,         \* RS485::_rs485_en (uint8_t)
    slaveAddr,        \* PZEM004T::_slaveAddr / PZEM6L24::_slaveAddr
    pinLevel,         \* level last written to each pin by digitalWrite
    rx,               \* bytes waiting in the serial input stream
    pending,          \* bytes the bus has still to deliver
    tx,               \* bytes written to the stream by the running call
    pc,               \* position of the running call
    op,               \* the running call and its arguments
    response,         \* response[]: the bytes stored so far, by index
    responseLength,   \* uint8_t responseLength
    startTime,        \* uint32_t startTime
    lastByteTime,     \* uint32_t lastByteTime
    foundSlaveAddr,   \* bool foundSlaveAddr
    result,           \* value returned by the RS485 operation / accessor
    data,             \* the uint16_t data[] handed to a read
    out,              \* the accessor's outputs
    \* history kept for the properties
    configured,       \* setEnable has succeeded on this session
    pinWrites,        \* digitalWrite calls of the running call
    settles,          \* delay(1) settle delays of the running call
    txCount,          \* _serial->write calls of the running call
    readCount,        \* _serial->read calls of the running call's receive loop
    drained,          \* clearBuffer() of the running call read something
    consumed,         \* bytes read by the receive loop of the running call
    lastArrival,      \* time the last byte reached the stream during the receive loop
    crcChecked,       \* verifyCRC16 was evaluated by the running call
    examined,         \* offsets of response[] read by the checks after the loop
    extracted,        \* offsets of response[] read by the extraction loop
    exitKind,         \* how the receive loop was left: "break" or "timeout"
    ticks,            \* clock advances seen by the running call
    calc,             \* a helper function under evaluation: arguments and value
    cache             \* PZEM004T sample time, cached measurements and their age

sessionVars == <<responseTimeout, rs485_en, slaveAddr, configured, cache>>
busVars     == <<rx, pending>>
loopVars    == <<response, responseLength, startTime, lastByteTime, foundSlaveAddr,
                 consumed, lastArrival, exitKind>>
retVars     == <<result, data, out, crcChecked, examined, extracted>>
pinVars     == <<pinLevel, pinWrites, settles>>
vars == <<now, responseTimeout, rs485_en, slaveAddr, pinLevel, rx, pending, tx, pc,
          op, response, responseLength, startTime, lastByteTime, foundSlaveAddr,
          result, data, out, configured, pinWrites, settles, txCount, readCount,
          consumed, lastArrival, crcChecked, exitKind, ticks, drained, examined,
          extracted, calc, cache>>
transportVars == <<now, sessionVars, pinVars, busVars, tx, pc, op, loopVars, retVars,
                   txCount, readCount, ticks, drained>>


(***************************************************************************)
(* Calls the application can make                                            *)
(***************************************************************************)
\* the switch of setCurrentRange with two of its codes exchanged (what C29
\* rules out)
rangeValueExchanged(range) ==
    CASE range = 100 -> PZEM_CURRENT_RANGE_50A
      [] range = 50  -> PZEM_CURRENT_RANGE_100A
      [] range = 200 -> PZEM_CURRENT_RANGE_200A
      [] range = 300 -> PZEM_CURRENT_RANGE_300A
      [] OTHER       -> 0

\* the switch of setCurrentRange; its default case returns before rangeValue
\* is used
rangeValue(range) ==
    CASE range = 100 -> PZEM_CURRENT_RANGE_100A
      [] range = 50  -> PZEM_CURRENT_RANGE_50A
      [] range = 200 -> PZEM_CURRENT_RANGE_200A
      [] range = 300 -> PZEM_CURRENT_RANGE_300A
      [] OTHER       -> 0

\* the value an operation puts into its write request
WrittenValue(o) ==
    IF o.acc = "setCurrentRange" THEN rangeValue(o.arg) ELSE o.arg

\* acc: the public entry point; fn: the RS485 operation it runs; start, n:
\* register address and count; arg: value, phase or new address; be: big_endian
Call(acc, fn, start, n, arg, be) ==
    [acc |-> acc, fn |-> fn, start |-> start, n |-> n, arg |-> arg, be |-> be]

RawCalls ==
    { Call("RS485", "readHoldingRegisters", 0, 1, 0, TRUE),
      Call("RS485", "readInputRegisters", 0, 2, 0, FALSE),
      Call("RS485", "readHoldingRegisters", 0, 126, 0, TRUE),
      Call("RS485", "writeSingleRegister", 1, 1, 4660, TRUE),
      Call("RS485", "writeMultipleRegisters", 1, 1, 4660, TRUE),
      Call("RS485", "resetEnergy", 0, 0, 0, TRUE),
      Call("RS485", "resetEnergyPhase", 0, 0, 1, TRUE) }

\* writeMultipleRegisters with counts whose totalBytes wraps
WideCalls ==
    { Call("RS485", "writeMultipleRegisters", 1, n, 4660, TRUE) : n \in {124, 125} }

\* setCurrentRange and getCurrentRange of the PZEM017
RangeCalls ==
    { Call("setCurrentRange", "writeSingleRegister", PZEM_CURRENT_RANGE_REG, 1, r, TRUE)
        : r \in RangeInputs }
    \cup { Call("getCurrentRange", "readHoldingRegisters", PZEM_CURRENT_RANGE_REG, 1, 0, TRUE) }

AccessorCalls ==
    { Call("readVoltage", "readInputRegisters", PZEM_VOLTAGE_REG, 1, 0, TRUE),
      Call("readVoltageSampleTime", "readInputRegisters", PZEM_VOLTAGE_REG, 1, 0, TRUE),
      Call("readAll", "readInputRegisters", PZEM_VOLTAGE_REG, ReadAllRegs, 0, TRUE),
      Call("readVoltage3", "readInputRegisters", PZEM_VOLTAGE_REG, 3, 0, FALSE) }
    \cup { Call("readVoltagePhase", "readInputRegisters", PZEM_VOLTAGE_REG + ph, 1, ph, FALSE)
           : ph \in {0, 3} }
    \cup { Call("setAddress", "writeSingleRegister", PZEM_ADDRESS_REG, 1, a, TRUE)
           : a \in {0, 2, 248} }
    \cup { Call("getAddress", "readHoldingRegisters", PZEM_ADDRESS_REG, 1, 0, TRUE) }

IsRead(fn) == fn \in {"readHoldingRegisters", "readInputRegisters"}

FunctionCode(fn) ==
    CASE fn = "readHoldingRegisters"   -> MODBUS_READ_HOLDING_REGISTERS
      [] fn = "readInputRegisters"     -> MODBUS_READ_INPUT_REGISTERS
      [] fn = "writeSingleRegister"    -> MODBUS_WRITE_SINGLE_REGISTER
      [] fn = "writeMultipleRegisters" -> MODBUS_WRITE_MULTIPLE_REGISTERS
      [] OTHER                         -> MODBUS_RESET_ENERGY

\* the two bytes a 16-bit value occupies on the wire
ValueBytesHighFirst(v, be) == <<HiByte(v), LoByte(v)>>

ValueBytes(v, be) ==
    IF be THEN <<HiByte(v), LoByte(v)>> ELSE <<LoByte(v), HiByte(v)>>

(***************************************************************************)
(* Frame encoder: the request each operation writes                          *)
(***************************************************************************)
ReadRequest(addr, code, start, n) ==
    WithCRC(<<addr, code, HiByte(start), LoByte(start), HiByte(n), LoByte(n)>>)

WriteSingleRequest(addr, reg, value, be) ==
    WithCRC(<<addr, MODBUS_WRITE_SINGLE_REGISTER, HiByte(reg), LoByte(reg)>>
            \o ValueBytes(value, be))

\* uint8_t totalBytes = 6 + 1 + (2 * numRegs) + 2
TotalBytes(n) == U8(6 + 1 + (2 * n) + 2)

\* request[] of writeMultipleRegisters after the header and the data loop, by
\* index: each position holds the byte stored there last (uint8_t dataIndex
\* starts at 7 and wraps to 0 after 255); every data[i] is value in this model
WriteMultipleBuffer(addr, start, n, value, be) ==
    LET header == <<addr, MODBUS_WRITE_MULTIPLE_REGISTERS, HiByte(start),
                    LoByte(start), HiByte(n), LoByte(n), U8(2 * n)>>
    IN  [p \in 0..(RequestBufferSize - 1) |->
            LET first  == (p - 7) % 256
                stores == {first + 256 * k : k \in 0..((2 * n) \div 256)}
                              \cap (0..(2 * n - 1))
            IN  IF stores # {}
                THEN LET j == CHOOSE x \in stores : \A y \in stores : y <= x
                     IN  ValueBytes(value, be)[(j % 2) + 1]
                ELSE IF p < 7 THEN header[p + 1] ELSE Unwritten]

\* the CRC writeMultipleRegisters computes: calculateCRC16(request, totalBytes - 2)
WriteMultipleCRC(buf, total) ==
    LET length == U8(total - 2)
    IN  calculateCRC16([i \in 1..length |-> buf[i - 1]], length)

\* the bytes _serial->write(request, totalBytes) sends when totalBytes >= 2
WriteMultipleRequest(addr, start, n, value, be) ==
    LET buf   == WriteMultipleBuffer(addr, start, n, value, be)
        total == TotalBytes(n)
        crc   == WriteMultipleCRC(buf, total)
        full  == [buf EXCEPT ![total - 2] = LoByte(crc), ![total - 1] = HiByte(crc)]
    IN  [i \in 1..total |-> full[i - 1]]

\* the same when totalBytes = 1: request[totalBytes - 2] is a store outside
\* the array. Either it lands on a byte nothing reads and one byte is sent,
\* or it lands on totalBytes itself and that many bytes are sent
WriteMultipleOutside(addr, start, n, value, be) ==
    LET buf    == WriteMultipleBuffer(addr, start, n, value, be)
        crc    == WriteMultipleCRC(buf, 1)
        total2 == LoByte(crc)
        full2  == IF total2 >= 1 THEN [buf EXCEPT ![total2 - 1] = HiByte(crc)]
                  ELSE buf
    IN  { <<HiByte(crc)>>, [i \in 1..total2 |-> full2[i - 1]] }

ResetRequest(addr) == WithCRC(<<addr, MODBUS_RESET_ENERGY>>)

\* a phase reset frame without its reserved byte (what C28 rules out)
ResetPhaseRequestBare(addr, phaseSequence) ==
    WithCRC(<<addr, MODBUS_RESET_ENERGY, phaseSequence>>)

ResetPhaseRequest(addr, phaseSequence) ==
    WithCRC(<<addr, MODBUS_RESET_ENERGY, 0, phaseSequence>>)

Request(o) ==
    CASE IsRead(o.fn) -> ReadRequest(o.addr, FunctionCode(o.fn), o.start, o.n)
      [] o.fn = "writeSingleRegister" ->
             WriteSingleRequest(o.addr, o.start, WrittenValue(o), o.be)
      [] o.fn = "writeMultipleRegisters" ->
             WriteMultipleRequest(o.addr, o.start, o.n, o.arg, o.be)
      [] o.fn = "resetEnergy" -> ResetRequest(o.addr)
      [] OTHER -> ResetPhaseRequest(o.addr, o.arg)

\* what an operation may put on the wire
RequestOutcomes(o) ==
    IF o.fn = "writeMultipleRegisters" /\ TotalBytes(o.n) < 2
    THEN WriteMultipleOutside(o.addr, o.start, o.n, o.arg, o.be)
    ELSE { Request(o) }

\* uint8_t minBytesExpected
MinBytesExpected(o) ==
    CASE IsRead(o.fn) -> U8(3 + (2 * o.n) + 2)
      [] o.fn \in {"writeSingleRegister", "writeMultipleRegisters"} -> 8
      [] o.fn = "resetEnergy" -> 4
      [] OTHER -> 6

\* sizeof(response)
ResponseSize(o) ==
    CASE IsRead(o.fn) -> ReadBufferSize
      [] o.fn \in {"writeSingleRegister", "writeMultipleRegisters"} -> 8
      [] o.fn = "resetEnergy" -> 4
      [] OTHER -> 6

\* the bound of the receive loop
LoopTimeout(o, rt) == IF IsRead(o.fn) THEN rt ELSE WriteTimeout


(***************************************************************************)
(* The bus: what a device, or noise, may put on the line after a request     *)
(***************************************************************************)
RECURSIVE RegisterBytes(_, _)
RegisterBytes(k, be) ==
    IF k = 0 THEN <<>>
    ELSE RegisterBytes(k - 1, be) \o ValueBytes(RegValues[k], be)

ReadReply(o, k) ==
    WithCRC(<<o.addr, FunctionCode(o.fn), U8(2 * k)>> \o RegisterBytes(k, o.be))

ExpectedReply(o) ==
    CASE IsRead(o.fn) -> ReadReply(o, o.n)
      [] o.fn = "writeSingleRegister" -> Request(o)
      [] o.fn = "writeMultipleRegisters" ->
             WithCRC(<<o.addr, MODBUS_WRITE_MULTIPLE_REGISTERS, HiByte(o.start),
                       LoByte(o.start), HiByte(o.n), LoByte(o.n)>>)
      [] OTHER -> Request(o)

ExceptionReply(o) == WithCRC(<<o.addr, FunctionCode(o.fn) + 128, 2>>)

\* a frame with one bit of its last byte flipped
Corrupt(f) == [f EXCEPT ![Len(f)] = BitXor(@, 1)]

\* a frame with a valid CRC that is shorter than the operation expects
ShortReply(o) ==
    CASE IsRead(o.fn) -> ReadReply(o, o.n - 1)
      [] o.fn = "resetEnergy" -> WithCRC(<<o.addr>>)
      [] OTHER -> WithCRC(<<o.addr, FunctionCode(o.fn)>>)

\* a read reply, CRC valid, whose last data byte is missing and whose count
\* says so: an odd byteCount
OddCountReply(o) ==
    LET bytes == RegisterBytes(o.n, o.be)
    IN  WithCRC(<<o.addr, FunctionCode(o.fn), U8(2 * o.n - 1)>>
                \o SubSeq(bytes, 1, Len(bytes) - 1))

\* a read reply declaring more data bytes than any frame holds
HugeCountReply(o) == WithCRC(<<o.addr, FunctionCode(o.fn), 255>>)

GarbageSeqs == UNION { [1..k -> GarbageBytes] : k \in 1..MaxGarbage }

\* a register count that fits neither the request nor the response frame
BadCount(o) ==
    \/ IsRead(o.fn) /\ 3 + (2 * o.n) + 2 > ReadBufferSize
    \/ o.fn = "writeMultipleRegisters" /\ 6 + 1 + (2 * o.n) + 2 > RequestBufferSize

\* the replies to a read of the current range register
RangeReplies(o) ==
    IF o.acc = "getCurrentRange"
    THEN { WithCRC(<<o.addr, FunctionCode(o.fn), 2>> \o ValueBytes(v, o.be))
             : v \in RangeRegisters }
    ELSE {}

\* the reply of a device that holds all the registers a read asks for, however
\* many: 3 + 2 * numRegs + 2 bytes, the count byte reduced to its 8 bits
LongReply(o) ==
    WithCRC(<<o.addr, FunctionCode(o.fn), U8(2 * o.n)>> \o [i \in 1..(2 * o.n) |-> 0])

\* what a device answers, or fails to
DeviceReplies(o) ==
    IF BadCount(o)
    THEN { <<>>, ExceptionReply(o) }
    ELSE { <<>>, ExpectedReply(o), Corrupt(ExpectedReply(o)), ExceptionReply(o) }
         \cup RangeReplies(o)

\* the same with line noise, truncation and malformed frames
NoisyReplies(o) ==
    IF BadCount(o)
    THEN DeviceReplies(o)
    ELSE LET e == ExpectedReply(o)
         IN  DeviceReplies(o)
             \cup { Corrupt(ExceptionReply(o)), ShortReply(o), SubSeq(e, 1, 1),
                    SubSeq(e, 1, Len(e) - 1), e \o <<0, 0>> }
             \cup { g \o e : g \in GarbageSeqs }
             \cup (IF IsRead(o.fn) THEN { HugeCountReply(o), OddCountReply(o) }
                   ELSE {})

Replies(o, noisy) == IF noisy THEN NoisyReplies(o) ELSE DeviceReplies(o)

(***************************************************************************)
(* Values handed to the application                                          *)
(***************************************************************************)
\* a float output: a measurement of v LSB units, NAN, a variable the call left
\* alone, or a value computed from a data[] slot the read never assigned
\* (v is a 32-bit quantity kept as its two 16-bit halves)
Measured(raw) ==
    IF raw = Unwritten THEN [kind |-> "garbage", hi |-> 0, lo |-> 0]
    ELSE [kind |-> "value", hi |-> raw \div 65536, lo |-> raw % 65536]
Measured32(w) ==
    IF w.hi = Unwritten \/ w.lo = Unwritten THEN [kind |-> "garbage", hi |-> 0, lo |-> 0]
    ELSE [kind |-> "value", hi |-> w.hi, lo |-> w.lo]
NAN   == [kind |-> "nan", hi |-> 0, lo |-> 0]
MinusOne == [kind |-> "minusone", hi |-> 0, lo |-> 0]   \* -1.0f
Unset == [kind |-> "unset", hi |-> 0, lo |-> 0]

\* a uint32_t is kept as its two 16-bit halves; (int32_t)w is the number its
\* bits denote in two's complement, and a number returned through uint32_t
\* is reduced modulo 2^32
Int32(w) ==
    IF w.hi >= 32768 THEN ((w.hi - 65536) * 65536) + w.lo ELSE (w.hi * 65536) + w.lo
Uint32(x) == [hi |-> (x \div 65536) % 65536, lo |-> x % 65536]

\* the same with the two arguments exchanged
combineRegistersSwapped(low, high, signed_result) ==
    LET combined == [hi |-> low, lo |-> high]
    IN  IF signed_result THEN Uint32(Int32(combined)) ELSE combined

\* uint32_t combineRegisters(low, high, signed_result): the int32_t cast of the
\* signed branch is converted back by the uint32_t return type
combineRegisters(low, high, signed_result) ==
    LET combined == [hi |-> high, lo |-> low]
    IN  IF signed_result THEN Uint32(Int32(combined)) ELSE combined

OutCount(acc) ==
    CASE acc \in {"readAll", "readAllSampleTime"} -> 6
      [] acc = "readVoltage3" -> 3
      [] acc \in {"readVoltage", "readVoltagePhase", "readVoltageSampleTime"} -> 1
      [] acc \in {"getAddress", "getCurrentRange"} -> 1
      [] OTHER -> 0


(***************************************************************************)
(* Transceiver director                                                      *)
(***************************************************************************)
\* a director that never raises the line (what C5 rules out)
enableTransmitIdle(en, lvl) == [level |-> lvl, delay |-> 0, writes |-> 0]

\* what enableTransmit / enableReceive do to the pins, and the delay and the
\* digitalWrite they cost, given the member _rs485_en
enableTransmit(en, lvl) ==
    IF en >= 0
    THEN [level |-> [lvl EXCEPT ![en] = "HIGH"], delay |-> SettleDelay, writes |-> 1]
    ELSE [level |-> lvl, delay |-> 0, writes |-> 0]

\* a director that never lowers the line (what C6 rules out)
enableReceiveIdle(en, lvl) == [level |-> lvl, delay |-> 0, writes |-> 0]

enableReceive(en, lvl) ==
    IF en >= 0
    THEN [level |-> [lvl EXCEPT ![en] = "LOW"], delay |-> SettleDelay, writes |-> 1]
    ELSE [level |-> lvl, delay |-> 0, writes |-> 0]

\* a clearBuffer that reads nothing (what C23 rules out)
clearBufferKeep(stream) == stream

\* bytes left in the input stream by clearBuffer
clearBuffer(stream) == <<>>

(***************************************************************************)
(* Response reader                                                           *)
(***************************************************************************)
\* a reader that buffers from the first byte on (what C2 rules out)
ResyncAtOnce(found, b, addr) == TRUE

\* foundSlaveAddr after byte b was read
Resync(found, b, addr) == found \/ b = addr

\* response[] after response[len] = b
StoreByte(resp, len, b) ==
    IF len < Len(resp) THEN [resp EXCEPT ![len + 1] = b] ELSE Append(resp, b)

\* a break on the idle gap alone (what C8 rules out)
LoopBreakOnGap(len, minBytes, t, last) == (t - last) > IdleGap

\* the break condition at the end of an iteration
LoopBreak(len, minBytes, t, last) ==
    len >= minBytes /\ (t - last) > IdleGap

\* response[i]; u stands for a byte of the array that was never written
ByteAt(resp, i, u) == IF i < Len(resp) THEN resp[i + 1] ELSE u

(***************************************************************************)
(* Response validator / decoder                                              *)
(***************************************************************************)
IsErrorResponse(fn, funcByte) ==
    IF fn = "resetEnergyPhase" THEN funcByte = 194
    ELSE BitAnd(funcByte, 128) # 0

\* a validator that trusts the frame without its CRC (what C1 rules out)
AcceptedUnverified(o, resp, len, u) ==
    /\ len # 0
    /\ ~IsErrorResponse(o.fn, ByteAt(resp, 1, u))

\* the checks between the receive loop and "return true"
Accepted(o, resp, len, u) ==
    /\ len # 0
    /\ ~IsErrorResponse(o.fn, ByteAt(resp, 1, u))
    /\ verifyCRC16(resp, len)

\* verifyCRC16 is reached
CrcReached(o, resp, len, u) ==
    len # 0 /\ ~IsErrorResponse(o.fn, ByteAt(resp, 1, u))

\* offsets of response[] read by those checks: response[1] by the error test,
\* data[0 .. length - 1] by verifyCRC16 once length >= 2
Examined(o, resp, len, u) ==
    IF len = 0 THEN {}
    ELSE {1} \cup (IF CrcReached(o, resp, len, u) /\ len >= 2
                   THEN 0..(len - 1) ELSE {})

\* the same taking the first byte of every pair as the low one
RegisterAtLowFirst(resp, i, be, u) ==
    BitOr(ByteAt(resp, i, u), ByteAt(resp, i + 1, u) * 256)

RegisterAt(resp, i, be, u) ==
    IF be THEN BitOr(ByteAt(resp, i, u) * 256, ByteAt(resp, i + 1, u))
    ELSE BitOr(ByteAt(resp, i, u), ByteAt(resp, i + 1, u) * 256)

\* iterations of for (i = 3; i < 3 + byteCount; i += 2) that assign a register
ExtractCount(n, byteCount) ==
    LET rounds == (byteCount + 1) \div 2
    IN  IF n < rounds THEN n ELSE rounds

\* offsets of response[] those iterations read, with response[2] itself
ExtractReads(n, byteCount) ==
    {2} \cup UNION { {3 + 2 * (k - 1), 3 + 2 * (k - 1) + 1} :
                      k \in 1..ExtractCount(n, byteCount) }

\* the uint8_t index i of that loop can pass 3 + byteCount only below 256
ExtractTerminates(byteCount) == 3 + byteCount <= 255

\* an extraction that leaves the last register it is given at its prior
\* content (what C30 rules out)
ExtractKeepLast(o, resp, u, d) ==
    LET cnt == ExtractCount(o.n, ByteAt(resp, 2, u))
    IN  [k \in 1..Len(d) |->
            IF k < cnt THEN RegisterAt(resp, 3 + 2 * (k - 1), o.be, u) ELSE d[k]]

\* data[] after the extraction loop
Extract(o, resp, u, d) ==
    LET cnt == ExtractCount(o.n, ByteAt(resp, 2, u))
    IN  [k \in 1..Len(d) |->
            IF k <= cnt THEN RegisterAt(resp, 3 + 2 * (k - 1), o.be, u) ELSE d[k]]

(***************************************************************************)
(* Device accessors                                                          *)
(***************************************************************************)
\* the refusals without the address range of setAddress (what C35 rules out)
RejectedAddressUnchecked(c) ==
    \/ c.acc = "readVoltagePhase" /\ c.arg > 2
    \/ c.acc = "setCurrentRange" /\ c.arg \notin {100, 50, 200, 300}
    \/ c.fn = "writeMultipleRegisters" /\ TotalBytes(c.n) > RequestBufferSize

\* an argument the accessor or the operation refuses before it touches the bus
Rejected(c) ==
    \/ c.acc = "readVoltagePhase" /\ c.arg > 2
    \/ c.acc = "setAddress" /\ (c.arg < 1 \/ c.arg > 247)
    \/ c.acc = "setCurrentRange" /\ c.arg \notin {100, 50, 200, 300}
    \/ c.fn = "writeMultipleRegisters" /\ TotalBytes(c.n) > RequestBufferSize

\* a three-phase reader that marks only its first output on failure (what C4
\* rules out)
OutputsFirstOnly(acc, ok, d, prev) ==
    CASE acc \in {"readVoltage", "readVoltagePhase"} ->
             IF ok THEN <<Measured(d[1])>> ELSE <<NAN>>
      [] acc = "readVoltageSampleTime" ->
             IF ok THEN <<Measured(d[1])>> ELSE <<MinusOne>>
      [] acc = "readVoltage3" ->
             IF ok THEN <<Measured(d[1]), Measured(d[2]), Measured(d[3])>>
             ELSE <<NAN, prev[2], prev[3]>>
      [] OTHER -> prev

\* outputs of an accessor whose transaction returned ok with data d
Outputs(acc, ok, d, prev) ==
    CASE acc \in {"readVoltage", "readVoltagePhase"} ->
             IF ok THEN <<Measured(d[1])>> ELSE <<NAN>>
      [] acc = "readVoltageSampleTime" ->
             IF ok THEN <<Measured(d[1])>> ELSE <<MinusOne>>
      [] acc = "readVoltage3" ->
             IF ok THEN <<Measured(d[1]), Measured(d[2]), Measured(d[3])>>
             ELSE <<NAN, NAN, NAN>>
      [] acc \in {"readAll", "readAllSampleTime"} ->
             IF ok
             THEN <<Measured(d[1]),
                    Measured32(combineRegisters(d[2], d[3], FALSE)),
                    Measured32(combineRegisters(d[4], d[5], FALSE)),
                    Measured32(combineRegisters(d[6], d[7], FALSE)),
                    Measured(d[8]), Measured(d[9])>>
             ELSE prev
      [] OTHER -> prev

\* a float that was never assigned
Garbage == [kind |-> "garbage", hi |-> 0, lo |-> 0]

\* readAll of the PZEM004T with a sample time: the condition under which it
\* skips the device read, _sampleTimeMs <= 0 || (currentTime - _lastReadTime)
\* >= _sampleTimeMs being false, and the cached members it then hands out
CacheHit(c, ch) ==
    /\ c.acc = "readAllSampleTime"
    /\ ~(ch.sampleTimeMs <= 0 \/ ch.age >= ch.sampleTimeMs)
Cached(ch) ==
    IF ch.valid THEN ch.values ELSE [k \in 1..6 |-> Garbage]

\* the cache after the checks of a call: a successful read stores the
\* measurements and _lastReadTime = currentTime, the millis() of the call's entry
Refreshed(acc, ok, d, ch) ==
    IF acc = "readAllSampleTime" /\ ok
    THEN [ch EXCEPT !.valid = TRUE, !.age = 0,
                    !.values = Outputs("readAll", TRUE, d, <<>>)]
    ELSE ch

\* an integer an accessor returns
IntValue(x) == [kind |-> "value", hi |-> 0, lo |-> x]

\* uint8_t getAddress(): data[0] narrowed to uint8_t when the read returned
\* true, the member _slaveAddr when it did not
getAddress(ok, d, addr) ==
    IF ~ok THEN IntValue(addr)
    ELSE IF d[1] = Unwritten THEN [kind |-> "garbage", hi |-> 0, lo |-> 0]
    ELSE IntValue(U8(d[1]))

\* float PZEM017::getCurrentRange(): the range of the code in data[0] when
\* the read returned true, NAN for any other code and when it did not
getCurrentRange(ok, d) ==
    IF ~ok THEN NAN
    ELSE CASE d[1] = Unwritten -> Garbage
           [] d[1] = PZEM_CURRENT_RANGE_100A -> IntValue(100)
           [] d[1] = PZEM_CURRENT_RANGE_50A  -> IntValue(50)
           [] d[1] = PZEM_CURRENT_RANGE_200A -> IntValue(200)
           [] d[1] = PZEM_CURRENT_RANGE_300A -> IntValue(300)
           [] OTHER -> NAN

\* outputs when the argument is refused
RejectedOutputs(acc, prev) ==
    IF acc = "readVoltagePhase" THEN <<NAN>> ELSE prev


(***************************************************************************)
(* Initial state: a constructed session on a quiet bus                       *)
(***************************************************************************)
NoCall == [acc |-> "none", fn |-> "none", start |-> 0, n |-> 0, arg |-> 0,
           be |-> TRUE, addr |-> 0]

\* no helper function is under evaluation
NoCalc == [fn |-> "none", args |-> <<>>, ok |-> FALSE, order |-> "none",
           signed |-> FALSE, value |-> [hi |-> 0, lo |-> 0], int |-> 0]

\* the transport and the device objects as their constructors leave them
ConstructedWith(en) ==
    /\ cache = [sampleTimeMs |-> SAMPLE_TIME, age |-> 0, valid |-> FALSE, values |-> <<>>]
    /\ now = 0
    /\ responseTimeout = DefaultResponseTimeout
    /\ rs485_en = en
    /\ slaveAddr = DefaultSlaveAddr
    /\ pinLevel = [p \in Pins |-> "NONE"]
    /\ rx = <<>>
    /\ pending = <<>>
    /\ tx = <<>>
    /\ pc = "idle"
    /\ op = NoCall
    /\ response = <<>>
    /\ responseLength = 0
    /\ startTime = 0
    /\ lastByteTime = 0
    /\ foundSlaveAddr = FALSE
    /\ result = FALSE
    /\ data = <<>>
    /\ out = <<>>
    /\ configured = FALSE
    /\ pinWrites = 0
    /\ settles = 0
    /\ txCount = 0
    /\ readCount = 0
    /\ drained = FALSE
    /\ consumed = <<>>
    /\ lastArrival = 0 - 1
    /\ crcChecked = FALSE
    /\ examined = {}
    /\ extracted = {}
    /\ exitKind = "none"
    /\ ticks = 0

\* the session of the header that declares uint8_t _rs485_en
Constructed == ConstructedWith(UnsetEnable)

Init == Constructed /\ calc = NoCalc

(***************************************************************************)
(* Configuration                                                             *)
(***************************************************************************)
\* bool RS485::setEnable(uint8_t enablePin)
setEnable(enablePin) ==
    /\ pc = "idle"
    /\ ~configured
    /\ IF rs485_en >= 0
       THEN LET r == enableReceive(enablePin, pinLevel)
            IN  /\ rs485_en' = enablePin
                /\ pinLevel' = r.level
                /\ now' = now + r.delay
                /\ configured' = TRUE
                /\ result' = TRUE
       ELSE /\ result' = FALSE
            /\ UNCHANGED <<rs485_en, pinLevel, now, configured>>
    /\ op' = [NoCall EXCEPT !.acc = "setEnable", !.arg = enablePin]
    /\ UNCHANGED <<responseTimeout, slaveAddr, rx, pending, tx, pc, data, out,
                   pinWrites, settles, txCount, readCount, crcChecked, ticks,
                   drained, examined, extracted, cache>>
    /\ UNCHANGED loopVars
    /\ UNCHANGED calc

\* void RS485::setTimeouts(uint32_t responseTimeout)
setTimeouts(t) ==
    /\ pc = "idle"
    /\ responseTimeout' = t
    /\ UNCHANGED <<now, rs485_en, slaveAddr, configured, pinVars, busVars, tx, pc, op,
                   loopVars, retVars, txCount, readCount, ticks, drained, calc, cache>>

\* void PZEM004T::setSampleTime(unsigned long sampleTimeMs)
setSampleTime(t) ==
    /\ pc = "idle"
    /\ cache' = [cache EXCEPT !.sampleTimeMs = t]
    /\ UNCHANGED <<now, responseTimeout, rs485_en, slaveAddr, configured, pinVars,
                   busVars, tx, pc, op, loopVars, retVars, txCount, readCount, ticks,
                   drained, calc>>

(***************************************************************************)
(* One transaction, step by step                                             *)
(***************************************************************************)
\* entry of an accessor or operation: argument checks, locals
Enter(c) ==
    /\ pc = "idle"
    /\ op' = [acc |-> c.acc, fn |-> c.fn, start |-> c.start, n |-> c.n,
              arg |-> c.arg, be |-> c.be, addr |-> slaveAddr]
    /\ data' = [k \in 1..(IF IsRead(c.fn) THEN c.n ELSE 0) |-> Unwritten]
    /\ tx' = <<>>
    /\ pinWrites' = 0 /\ settles' = 0 /\ txCount' = 0 /\ readCount' = 0
    /\ drained' = FALSE
    /\ crcChecked' = FALSE
    /\ examined' = {}
    /\ extracted' = {}
    /\ IF Rejected(c)
       THEN /\ pc' = "done"
            /\ result' = FALSE
            /\ out' = RejectedOutputs(c.acc, [k \in 1..OutCount(c.acc) |-> Unset])
       ELSE IF CacheHit(c, cache)
       THEN /\ pc' = "done"
            /\ result' = TRUE
            /\ out' = Cached(cache)
       ELSE /\ pc' = "clear"
            /\ result' = FALSE
            /\ out' = [k \in 1..OutCount(c.acc) |-> Unset]
    /\ UNCHANGED <<now, sessionVars, pinLevel, busVars, loopVars, ticks>>
    /\ UNCHANGED calc

\* a call made once the line is quiet
Invoke(c) ==
    /\ pending = <<>>   \* bytes that arrive late are the garbage in front of a reply
    /\ Enter(c)

\* clearBuffer()
ClearBufferStep ==
    /\ pc = "clear"
    /\ rx' = clearBuffer(rx)
    /\ drained' = (rx # <<>>)
    /\ pc' = "txen"
    /\ UNCHANGED <<now, sessionVars, pinVars, pending, tx, op, loopVars, retVars,
                   txCount, readCount, ticks>>
    /\ UNCHANGED calc

\* enableTransmit()
EnableTransmitStep ==
    /\ pc = "txen"
    /\ LET r == enableTransmit(rs485_en, pinLevel)
       IN  /\ pinLevel' = r.level
           /\ now' = now + r.delay
           /\ settles' = settles + (IF r.delay > 0 THEN 1 ELSE 0)
           /\ pinWrites' = pinWrites + r.writes
    /\ pc' = "write"
    /\ UNCHANGED <<sessionVars, busVars, tx, op, loopVars, retVars, txCount,
                   readCount, ticks, drained>>
    /\ UNCHANGED calc

\* _serial->write(request, ..): the request goes out and the bus decides what
\* will come back
WriteStepWith(replies) ==
    /\ pc = "write"
    /\ \E frame \in RequestOutcomes(op) : tx' = tx \o frame
    /\ txCount' = txCount + 1
    /\ \E reply \in replies : pending' = pending \o reply
    /\ pc' = "flush"
    /\ UNCHANGED <<now, sessionVars, pinVars, rx, op, loopVars, retVars, readCount,
                   ticks, drained>>
    /\ UNCHANGED calc

WriteStep(noisy) == WriteStepWith(Replies(op, noisy))

\* _serial->flush(); delay(10)
FlushStep ==
    /\ pc = "flush"
    /\ now' = now + PostWriteDelay
    /\ pc' = "rxen"
    /\ UNCHANGED <<sessionVars, pinVars, busVars, tx, op, loopVars, retVars,
                   txCount, readCount, ticks, drained>>
    /\ UNCHANGED calc

\* enableReceive(); the locals of the receive loop
EnableReceiveStep ==
    /\ pc = "rxen"
    /\ LET r == enableReceive(rs485_en, pinLevel)
       IN  /\ pinLevel' = r.level
           /\ now' = now + r.delay
           /\ settles' = settles + (IF r.delay > 0 THEN 1 ELSE 0)
           /\ pinWrites' = pinWrites + r.writes
           /\ startTime' = now + r.delay
    /\ response' = <<>>
    /\ responseLength' = 0
    /\ lastByteTime' = 0
    /\ foundSlaveAddr' = FALSE
    /\ consumed' = <<>>
    /\ lastArrival' = 0 - 1
    /\ exitKind' = "none"
    /\ pc' = "loop"
    /\ UNCHANGED <<sessionVars, busVars, tx, op, retVars, txCount, readCount, ticks,
                   drained>>
    /\ UNCHANGED calc

\* one iteration of while (millis() - startTime < timeout) that reads a byte
\* or takes the break
LoopStep ==
    /\ pc = "loop"
    /\ now - startTime < LoopTimeout(op, responseTimeout)
    /\ LET avail  == rx # <<>>
           b      == Head(rx)
           found2 == IF avail THEN Resync(foundSlaveAddr, b, op.addr)
                     ELSE foundSlaveAddr
           store  == avail /\ found2 /\ responseLength < ResponseSize(op)
           len2   == IF store THEN U8(responseLength + 1) ELSE responseLength
           last2  == IF store THEN now ELSE lastByteTime
           brk    == LoopBreak(len2, MinBytesExpected(op), now, last2)
       IN  /\ avail \/ brk
           /\ rx' = IF avail THEN Tail(rx) ELSE rx
           /\ readCount' = readCount + (IF avail THEN 1 ELSE 0)
           /\ consumed' = IF avail THEN Append(consumed, b) ELSE consumed
           /\ foundSlaveAddr' = found2
           /\ response' = IF store THEN StoreByte(response, responseLength, b)
                          ELSE response
           /\ responseLength' = len2
           /\ lastByteTime' = last2
           /\ exitKind' = IF brk THEN "break" ELSE exitKind
           /\ pc' = IF brk THEN "validate" ELSE "loop"
    /\ UNCHANGED <<now, sessionVars, pinVars, pending, tx, op, startTime,
                   lastArrival, retVars, txCount, ticks, drained>>
    /\ UNCHANGED calc

\* the loop condition fails
LoopExpire ==
    /\ pc = "loop"
    /\ ~(now - startTime < LoopTimeout(op, responseTimeout))
    /\ exitKind' = "timeout"
    /\ pc' = "validate"
    /\ UNCHANGED <<now, sessionVars, pinVars, busVars, tx, op, response,
                   responseLength, startTime, lastByteTime, foundSlaveAddr,
                   consumed, lastArrival, retVars, txCount, readCount, ticks,
                   drained>>
    /\ UNCHANGED calc

\* an operation that starts over when its checks fail (what C24 rules out)
AfterChecksRetry(ok) == IF ok THEN "done" ELSE "clear"

\* where an operation goes once its checks are over: every path is a return
AfterChecks(ok) == "done"

\* the checks after the loop, the extraction, and what the accessor makes of it
ValidateStep ==
    /\ pc = "validate"
    /\ \E u \in UninitBytes :
         LET ok == Accepted(op, response, responseLength, u)
             d2 == IF ok /\ IsRead(op.fn) THEN Extract(op, response, u, data) ELSE data
             returns == ~(ok /\ IsRead(op.fn))
                        \/ ExtractTerminates(ByteAt(response, 2, u))
         IN  /\ crcChecked' = CrcReached(op, response, responseLength, u)
             /\ examined' = Examined(op, response, responseLength, u)
             /\ extracted' = IF ok /\ IsRead(op.fn)
                             THEN ExtractReads(op.n, ByteAt(response, 2, u))
                             ELSE {}
             /\ data' = d2
             /\ IF returns
                THEN /\ pc' = AfterChecks(ok)
                     /\ result' = ok
                     /\ out' = CASE op.acc = "getAddress" ->
                                         <<getAddress(ok, d2, slaveAddr)>>
                                  [] op.acc = "getCurrentRange" ->
                                         <<getCurrentRange(ok, d2)>>
                                  [] OTHER -> Outputs(op.acc, ok, d2, out)
                     /\ slaveAddr' = IF op.acc = "setAddress" /\ ok THEN op.arg
                                     ELSE slaveAddr
                ELSE /\ pc' = "extract"
                     /\ UNCHANGED <<result, out, slaveAddr>>
             /\ cache' = IF returns THEN Refreshed(op.acc, ok, d2, cache) ELSE cache
    /\ UNCHANGED <<now, responseTimeout, rs485_en, configured, pinVars, busVars, tx,
                   op, loopVars, txCount, readCount, ticks, drained>>
    /\ UNCHANGED calc

\* the call returns to the application: its locals and outputs are gone
Return ==
    /\ pc = "done"
    /\ pc' = "idle"
    /\ op' = NoCall
    /\ tx' = <<>>
    /\ response' = <<>>
    /\ responseLength' = 0
    /\ startTime' = 0
    /\ lastByteTime' = 0
    /\ foundSlaveAddr' = FALSE
    /\ result' = FALSE
    /\ data' = <<>>
    /\ out' = <<>>
    /\ pinWrites' = 0 /\ settles' = 0 /\ txCount' = 0 /\ readCount' = 0
    /\ drained' = FALSE
    /\ consumed' = <<>>
    /\ lastArrival' = 0 - 1
    /\ crcChecked' = FALSE
    /\ examined' = {}
    /\ extracted' = {}
    /\ exitKind' = "none"
    /\ now' = 0
    /\ ticks' = 0
    /\ cache' = IF op.acc = "readAllSampleTime"
                THEN [cache EXCEPT !.age = Min(@ + now, MaxAge)]
                ELSE cache
    /\ UNCHANGED <<responseTimeout, rs485_en, slaveAddr, configured, pinLevel, busVars>>
    /\ UNCHANGED calc

(***************************************************************************)
(* Environment                                                               *)
(***************************************************************************)
\* the next byte on the line reaches the input stream; the receive loop polls
\* far faster than bytes arrive, so it has emptied the stream before the next
Deliver ==
    /\ pending # <<>>
    /\ \/ pc = "loop" /\ rx = <<>>
       \/ pc = "idle"
    /\ rx' = Append(rx, Head(pending))
    /\ pending' = Tail(pending)
    /\ lastArrival' = IF pc = "loop" THEN now ELSE lastArrival
    /\ UNCHANGED <<now, sessionVars, pinVars, tx, pc, op, response, responseLength,
                   startTime, lastByteTime, foundSlaveAddr, consumed, exitKind,
                   retVars, txCount, readCount, ticks, drained>>
    /\ UNCHANGED calc

\* the millisecond clock advances while the receive loop spins
Tick(d) ==
    /\ pc = "loop"
    /\ ticks < MaxTicks
    /\ ticks' = ticks + 1
    /\ now' = now + d
    /\ UNCHANGED <<sessionVars, pinVars, busVars, tx, pc, op, loopVars, retVars,
                   txCount, readCount, drained>>
    /\ UNCHANGED calc

\* nothing more happens until the loop's deadline
Elapse ==
    /\ pc = "loop"
    /\ now - startTime < LoopTimeout(op, responseTimeout)
    /\ now' = startTime + LoopTimeout(op, responseTimeout)
    /\ UNCHANGED <<sessionVars, pinVars, busVars, tx, pc, op, loopVars, retVars,
                   txCount, readCount, ticks, drained>>
    /\ UNCHANGED calc

\* the steps of a running transaction
Transaction(noisy) ==
    \/ ClearBufferStep
    \/ EnableTransmitStep
    \/ WriteStep(noisy)
    \/ FlushStep
    \/ EnableReceiveStep
    \/ LoopStep
    \/ LoopExpire
    \/ ValidateStep
    \/ Return
    \/ Deliver
    \/ \E d \in TickSteps : Tick(d)
    \/ Elapse

\* the RS485 operations on a noisy bus
Next ==
    \/ \E c \in RawCalls \cup WideCalls : Invoke(c)
    \/ Transaction(TRUE)

Spec == Init /\ [][Next]_vars

\* a read and a write on a noisy bus, where a running operation is never
\* suspended for ever: the processor keeps executing it and the millisecond
\* clock keeps advancing
LiveCalls ==
    { Call("RS485", "readHoldingRegisters", 0, 1, 0, TRUE),
      Call("RS485", "writeSingleRegister", 1, 1, 4660, TRUE) }

NextLive ==
    \/ \E t \in Timeouts : setTimeouts(t)
    \/ \E c \in LiveCalls : Invoke(c)
    \/ Transaction(TRUE)

\* the steps of a running operation other than the write and the checks
Running ==
    \/ ClearBufferStep
    \/ EnableTransmitStep
    \/ FlushStep
    \/ EnableReceiveStep
    \/ LoopStep
    \/ LoopExpire
    \/ Return
    \/ Deliver
    \/ \E d \in TickSteps : Tick(d)
    \/ Elapse

\* the processor keeps executing the operation and the clock keeps advancing;
\* WriteStep and ValidateStep are enabled exactly while pc is "write" and
\* "validate" and are the only steps that leave those positions, so weak
\* fairness of each is that pc is not there for ever
SpecLive ==
    /\ Init /\ [][NextLive]_vars
    /\ WF_vars(Running)
    /\ []<>(pc # "write")
    /\ []<>(pc # "validate")

\* the RS485 operations with the direction pin, and one call that is refused
PinCalls ==
    RawCalls \cup { Call("setAddress", "writeSingleRegister", PZEM_ADDRESS_REG, 1, 0, TRUE) }

NextPins ==
    \/ \E p \in EnablePins : setEnable(p)
    \/ \E c \in PinCalls : Invoke(c)
    \/ Transaction(FALSE)

SpecPins == Init /\ [][NextPins]_vars

\* the same on a session built with the RS485.h that declares int8_t _rs485_en
SpecPinsSigned ==
    ConstructedWith(UnsetEnableSigned) /\ calc = NoCalc /\ [][NextPins]_vars

\* the device accessors
NextDevice ==
    \/ \E c \in AccessorCalls \cup RawCalls : Invoke(c)
    \/ Transaction(FALSE)

SpecDevice == Init /\ [][NextDevice]_vars

\* time passes between two calls of the application
Wait(d) ==
    /\ pc = "idle"
    /\ pending = <<>>
    /\ cache.age < MaxAge
    /\ cache' = [cache EXCEPT !.age = Min(@ + d, MaxAge)]
    /\ UNCHANGED <<now, responseTimeout, rs485_en, slaveAddr, configured, pinVars,
                   busVars, tx, pc, op, loopVars, retVars, txCount, readCount, ticks,
                   drained, calc>>

\* readAll of the PZEM004T with its sample time
CacheCalls ==
    { Call("readAllSampleTime", "readInputRegisters", PZEM_VOLTAGE_REG, ReadAllRegs, 0, TRUE) }

NextCache ==
    \/ \E t \in SampleTimes : setSampleTime(t)
    \/ \E d \in WaitSteps : Wait(d)
    \/ \E c \in CacheCalls : Invoke(c)
    \/ Transaction(FALSE)

SpecCache == Init /\ [][NextCache]_vars

\* two reads, the second of which may be called while the reply to the first,
\* which timed out, is still on its way
LateCalls ==
    { Call("RS485", "readHoldingRegisters", 0, 1, 0, TRUE),
      Call("RS485", "readInputRegisters", 0, 2, 0, FALSE) }

\* the line is quiet, or carries the whole reply to an earlier call, of which
\* nothing has arrived yet
LateReplyOwed ==
    \/ pending = <<>>
    \/ \E c \in LateCalls :
          pending = ExpectedReply([acc |-> c.acc, fn |-> c.fn, start |-> c.start,
                                   n |-> c.n, arg |-> c.arg, be |-> c.be,
                                   addr |-> slaveAddr])

NextLate ==
    \/ \E c \in LateCalls : LateReplyOwed /\ Enter(c)
    \/ Transaction(FALSE)

SpecLate == Init /\ [][NextLate]_vars

\* a read of 126 registers answered in full, the bytes arriving back to back
NextLong ==
    \/ Invoke(Call("RS485", "readHoldingRegisters", 0, 126, 0, TRUE))
    \/ ClearBufferStep
    \/ EnableTransmitStep
    \/ WriteStepWith({LongReply(op)})
    \/ FlushStep
    \/ EnableReceiveStep
    \/ LoopStep
    \/ LoopExpire
    \/ ValidateStep
    \/ Return
    \/ Deliver
    \/ Elapse

SpecLong == Init /\ [][NextLong]_vars

\* the current range accessors of the PZEM017
NextRange ==
    \/ \E c \in RangeCalls : Invoke(c)
    \/ Transaction(FALSE)

SpecRange == Init /\ [][NextRange]_vars

(***************************************************************************)
(* The helper functions on their own                                         *)
(***************************************************************************)
\* the byte sequences a CRC is computed over
CrcInputs == UNION { [1..k -> CrcBytes] : k \in 0..MaxCrcLen }

\* the single bits of a byte
BitMasks == {1, 2, 4, 8, 16, 32, 64, 128}

\* a sequence gets its calculateCRC16 appended, low byte first, and the
\* result is handed to verifyCRC16
CrcAppend ==
    /\ calc.fn = "sequence"
    /\ LET framed == WithCRC(calc.args)
       IN  calc' = [calc EXCEPT !.fn = "framed", !.args = framed,
                                !.ok = verifyCRC16(framed, Len(framed))]
    /\ UNCHANGED transportVars

\* one bit of such a frame is inverted and verifyCRC16 is asked again
CrcFlip(i, mask) ==
    /\ calc.fn = "framed"
    /\ i \in 1..Len(calc.args)
    /\ LET flipped == [calc.args EXCEPT ![i] = FlipBit(@, mask)]
       IN  calc' = [calc EXCEPT !.fn = "flipped", !.args = flipped,
                                !.ok = verifyCRC16(flipped, Len(flipped))]
    /\ UNCHANGED transportVars

\* the register pairs a device may send and the ways the accessors hand them
\* to combineRegisters: first register as the low half (PZEM004T) or as the
\* high half (PZEM6L24)
PairValues == {0, 1, 32768, 65526, 65535}
Orders == {"LowFirst", "HighFirst"}

\* combineRegisters(data[0], data[1]) or combineRegisters(data[1], data[0])
Combine ==
    /\ calc.fn = "registers"
    /\ LET low  == IF calc.order = "LowFirst" THEN calc.args[1] ELSE calc.args[2]
           high == IF calc.order = "LowFirst" THEN calc.args[2] ELSE calc.args[1]
       IN  calc' = [calc EXCEPT !.fn = "combined",
                                !.value = combineRegisters(low, high, calc.signed)]
    /\ UNCHANGED transportVars

\* int32_t sPowerRaw = (int32_t)uPowerRaw of the signed accessors
CastSigned ==
    /\ calc.fn = "combined"
    /\ calc' = [calc EXCEPT !.fn = "cast", !.int = Int32(calc.value)]
    /\ UNCHANGED transportVars

\* the values writeSingleRegister is given and the byte orders of the transport
WriteValues == 0..65535
ByteOrders == {"big_endian", "little_endian"}

\* request[4], request[5] of writeSingleRegister(.., value, big_endian)
EncodeValue ==
    /\ calc.fn = "value"
    /\ calc' = [calc EXCEPT !.fn = "encoded",
                            !.args = ValueBytes(calc.int, calc.order = "big_endian")]
    /\ UNCHANGED transportVars

\* data[dataIndex] of a read with the same big_endian from those two bytes
DecodeValue ==
    /\ calc.fn = "encoded"
    /\ calc' = [calc EXCEPT !.fn = "decoded",
                            !.value = Uint32(RegisterAt(calc.args, 0,
                                                        calc.order = "big_endian", 0))]
    /\ UNCHANGED transportVars

InitPure ==
    /\ Constructed
    /\ \/ \E S \in CrcInputs : calc = [NoCalc EXCEPT !.fn = "sequence", !.args = S]
       \/ \E first \in PairValues, second \in PairValues, o \in Orders, sg \in BOOLEAN :
             calc = [NoCalc EXCEPT !.fn = "registers", !.args = <<first, second>>,
                                   !.order = o, !.signed = sg]
       \/ \E v \in WriteValues, o \in ByteOrders :
             calc = [NoCalc EXCEPT !.fn = "value", !.int = v, !.order = o]

NextPure ==
    \/ CrcAppend
    \/ \E i \in 1..(MaxCrcLen + 2), mask \in BitMasks : CrcFlip(i, mask)
    \/ Combine
    \/ CastSigned
    \/ EncodeValue
    \/ DecodeValue

SpecPure == InitPure /\ [][NextPure]_vars

(***************************************************************************)
(* Properties                                                                *)
(***************************************************************************)
\* the running call has come back from the bus, or hangs in its extraction loop
Finished == pc \in {"done", "extract"}

\* the buffer the receive loop hands to the checks
Buffer == SubSeq(response, 1, responseLength)

\* some element of the caller's data[] was assigned by the running call
DataWritten == \E k \in 1..Len(data) : data[k] # Unwritten

\* both checks a read makes before it trusts the buffer
ChecksPassed ==
    /\ responseLength >= 2
    /\ BitAnd(response[2], 128) = 0
    /\ verifyCRC16(response, responseLength)

\* C1: a read assigns an element of data[] only if the exception bit of byte 1
\* is clear and the CRC over the whole received buffer verifies; a response
\* that fails either check makes the read return false with data[] untouched.
C1_DataOnlyAfterChecks ==
    (Finished /\ IsRead(op.fn)) =>
        /\ DataWritten => ChecksPassed
        /\ ~ChecksPassed => (result = FALSE /\ ~DataWritten)

\* a read came back with a received frame whose CRC does not verify
C1_Witness ==
    /\ pc = "done" /\ IsRead(op.fn)
    /\ responseLength >= 2
    /\ BitAnd(response[2], 128) = 0
    /\ ~verifyCRC16(response, responseLength)
    /\ result = FALSE /\ ~DataWritten

\* garbage sequences whose bytes all differ from the address the call expects
CleanGarbage(addr) ==
    {<<>>} \cup { g \in GarbageSeqs : \A i \in 1..Len(g) : g[i] # addr }

\* C2 as stated: whatever the K garbage bytes in front of a well-formed frame
\* are, the loop that has read them all hands exactly the frame to validation.
C2_AnyGarbageDiscarded ==
    (pc = "validate" /\ op.n <= 125
       /\ \E g \in {<<>>} \cup GarbageSeqs : consumed = g \o ExpectedReply(op))
    => Buffer = ExpectedReply(op)

\* C2 (amended): K >= 0 garbage bytes, none equal to the expected slave
\* address, followed by a well-formed frame that begins with that address and
\* is read completely by the loop: the K bytes are dropped and the buffer
\* handed to validation is exactly the frame.
C2_CleanGarbageDiscarded ==
    (pc = "validate" /\ op.n <= 125
       /\ \E g \in CleanGarbage(op.addr) : consumed = g \o ExpectedReply(op))
    => /\ Buffer = ExpectedReply(op)
       /\ readCount - responseLength = Len(consumed) - Len(ExpectedReply(op))

\* the loop has read a garbage byte and then the whole frame
C2_Witness ==
    /\ pc = "validate" /\ op.n <= 125
    /\ \E g \in CleanGarbage(op.addr) :
         g # <<>> /\ consumed = g \o ExpectedReply(op)
    /\ Buffer = ExpectedReply(op)

\* C3 as stated: a call whose buffer holds fewer than minBytesExpected bytes
\* when the loop runs out of time fails; a shorter buffer is never accepted.
C3_ShortBufferFails ==
    (pc = "done" /\ exitKind = "timeout" /\ responseLength < MinBytesExpected(op))
    => result = FALSE

\* the call of an accessor failed: refused, or its transaction returned false
Failed == pc = "done" /\ op.acc # "RS485" /\ result = FALSE

AllOutputs(v) == \A k \in 1..Len(out) : out[k] = v

\* the accessors that return one float measurement, and those that deliver
\* measurements at all
FloatAccessors == {"readVoltage", "readVoltagePhase", "readVoltageSampleTime"}
MeasurementAccessors == FloatAccessors \cup {"readAll", "readVoltage3"}

C5_DirectionOrder ==
    configured =>
        /\ pc \in {"write", "flush", "rxen"} => pinLevel[rs485_en] = "HIGH"
        /\ (pc = "rxen" => tx # <<>>)
        /\ pc = "loop" => pinLevel[rs485_en] = "LOW"
        /\ (readCount > 0 /\ pc # "idle") => pinLevel[rs485_en] = "LOW"

\* the request is out, the line is low and the first response byte is read
C5_Witness ==
    /\ configured /\ pc = "loop"
    /\ tx # <<>> /\ readCount = 1
    /\ pinLevel[rs485_en] = "LOW"

\* C6: once a pin is configured every operation returns with the line low,
\* on success and on every failure, so the line is low whenever no operation
\* is in progress.
C6_ReceiveWhenIdle ==
    (configured /\ pc \in {"idle", "done"}) => pinLevel[rs485_en] = "LOW"

\* an operation that got an exception reply has returned with the line low
C6_Witness ==
    /\ configured /\ pc = "done"
    /\ txCount > 0 /\ result = FALSE
    /\ Buffer = ExceptionReply(op)
    /\ pinLevel[rs485_en] = "LOW"

\* C7 as stated: without setEnable no pin is driven and no settle delay is
\* taken during any transaction.
C7_NoPinNoDelay ==
    ~configured => (pinWrites = 0 /\ settles = 0 /\ \A p \in Pins : pinLevel[p] = "NONE")

C9_ExceptionVerified ==
    (pc = "done" /\ responseLength > 0 /\ Buffer = ExceptionReply(op))
    => (crcChecked /\ result = FALSE /\ ~DataWritten)

InvalidArgument(o) ==
    \/ BadCount(o)
    \/ o.acc = "setAddress" /\ (o.arg < 1 \/ o.arg > 247)
    \/ o.acc = "readVoltagePhase" /\ o.arg > 2

\* C10 as stated: a call with an invalid argument fails before any byte is
\* written to or read from the stream.
C10_RejectedBeforeIO ==
    (pc # "idle" /\ InvalidArgument(op)) =>
        /\ txCount = 0 /\ readCount = 0 /\ ~drained
        /\ pc = "done" => result = FALSE

\* number of elements of data[] the running call assigned
WrittenCount == Cardinality({k \in 1..Len(data) : data[k] # Unwritten})

\* byteCount as the extraction loop finds it in a buffer that holds it
DeclaredCount == response[3]


\* C11 as stated: the extraction assigns exactly min(numRegs, byteCount / 2)
\* registers and reads no byte of response[] at or beyond 3 + byteCount.
C11_ExtractWithinCount ==
    (Finished /\ IsRead(op.fn) /\ extracted # {} /\ responseLength >= 3) =>
        /\ WrittenCount = Min(op.n, DeclaredCount \div 2)
        /\ \A i \in extracted : i < 3 + DeclaredCount

\* C12 as stated: a buffer of fewer than 2 bytes is turned down before
\* response[1] is looked at, and the checks read only bytes that were received.
C12_ShortBufferUnread ==
    (Finished /\ txCount > 0) =>
        /\ responseLength < 2 => examined = {}
        /\ \A i \in examined : i < responseLength

\* C13: a byte sequence followed by its CRC16, low byte first, passes
\* verifyCRC16, and the same frame with any single bit inverted, in the data
\* or in the CRC bytes, does not
C13_CrcRoundTrip ==
    /\ calc.fn = "framed" => calc.ok
    /\ calc.fn = "flipped" => ~calc.ok

\* a sequence of full length was framed and a bit of its CRC bytes inverted
C13_Witness ==
    /\ calc.fn = "flipped"
    /\ Len(calc.args) = MaxCrcLen + 2
    /\ calc.args[1] = DefaultSlaveAddr
    /\ \E j \in {MaxCrcLen + 1, MaxCrcLen + 2}, mask \in BitMasks :
          [calc.args EXCEPT ![j] = FlipBit(@, mask)] = WithCRC(SubSeq(calc.args, 1, MaxCrcLen))
    /\ ~calc.ok

\* C14: the frame an operation has written to the stream ends with the CRC16
\* of the bytes before it, low byte first: verifyCRC16 of the frame is true
C14_RequestsCarryCRC ==
    txCount > 0 => verifyCRC16(tx, Len(tx))

\* C15: a read request is 8 bytes on the wire and a write-multiple request
\* for n registers is 9 + 2n bytes
C15_FrameLengths ==
    txCount > 0 =>
        /\ IsRead(op.fn) => Len(tx) = 8
        /\ op.fn = "writeMultipleRegisters" => Len(tx) = 9 + (2 * op.n)

\* C16: a transmitted write-multiple request keeps its header in bytes 0..5,
\* has 2n in byte 6 and carries 2n value bytes between byte 6 and the CRC
C16_ByteCountField ==
    (txCount > 0 /\ op.fn = "writeMultipleRegisters") =>
        /\ Len(tx) >= 7
        /\ SubSeq(tx, 1, 6) = <<op.addr, MODBUS_WRITE_MULTIPLE_REGISTERS,
                                HiByte(op.start), LoByte(op.start),
                                HiByte(op.n), LoByte(op.n)>>
        /\ tx[7] = 2 * op.n
        /\ Len(tx) - 7 - 2 = 2 * op.n

\* the request and the reply of the voltage read at the default address
ScenarioARequest == WithCRC(<<248, 4, 0, 0, 0, 1>>)
ScenarioAReply   == WithCRC(<<248, 4, 2, 8, 152>>)

ScenarioACall ==
    /\ op.fn = "readInputRegisters"
    /\ op.addr = 248 /\ op.start = 0 /\ op.n = 1 /\ op.be

\* C17: readInputRegisters(0xF8, 0, 1) transmits F8 04 00 00 00 01 and the
\* CRC, and the reply F8 04 02 08 98 with its CRC makes it return true with
\* data[0] = 2200
C17_ScenarioA ==
    ScenarioACall =>
        /\ txCount > 0 => tx = ScenarioARequest
        /\ (Finished /\ Buffer = ScenarioAReply) =>
               (pc = "done" /\ result /\ data = <<2200>>)

\* the call has returned true on that reply
C17_Witness ==
    /\ ScenarioACall
    /\ pc = "done"
    /\ tx = <<248, 4, 0, 0, 0, 1, 37, 163>>
    /\ Buffer = <<248, 4, 2, 8, 152, 35, 78>>
    /\ result
    /\ data[1] = 2200

\* the halves the composition of a register pair has under its order
HighHalf == IF calc.order = "HighFirst" THEN calc.args[1] ELSE calc.args[2]
LowHalf  == IF calc.order = "HighFirst" THEN calc.args[2] ELSE calc.args[1]

\* the uint32_t w is the number x
Denotes(w, x) == x >= 0 /\ w.hi = x \div 65536 /\ w.lo = x % 65536

\* C18: combineRegisters returns (high << 16) | low, the first register being
\* the low half under LowFirst and the high half under HighFirst, and with
\* signed_result = true the value returned is the two's-complement reading of
\* those 32 bits, negative when bit 31 is set
C18_ComposeSigned ==
    calc.fn = "combined" =>
        /\ calc.value = [hi |-> HighHalf, lo |-> LowHalf]
        /\ calc.signed => Denotes(calc.value, Int32([hi |-> HighHalf, lo |-> LowHalf]))

\* C19 as stated: the pair (0xFFF6, 0xFFFF), first register high, read as a
\* signed 32-bit value is -10
C19_ScenarioC ==
    (calc.fn = "cast" /\ calc.order = "HighFirst" /\ calc.args = <<65526, 65535>>) =>
        calc.int = 0 - 10

\* C19: the pair (0xFFF6, 0xFFFF), first register high, read as a signed
\* 32-bit value is 0xFFF6FFFF = -589825; -10 is the pair (0xFFFF, 0xFFF6)
C19_ScenarioCHighFirst ==
    (calc.fn = "cast" /\ calc.order = "HighFirst") =>
        /\ calc.args = <<65526, 65535>> => calc.int = 0 - 589825
        /\ calc.args = <<65535, 65526>> => calc.int = 0 - 10

\* the pair of the scenario was composed first register high and cast
C19_Witness ==
    /\ calc.fn = "cast"
    /\ calc.order = "HighFirst"
    /\ calc.args = <<65526, 65535>>
    /\ calc.value = [hi |-> 65526, lo |-> 65535]
    /\ calc.int < 0

\* C20: a float measurement accessor whose call failed (refused argument,
\* timeout, exception reply, CRC mismatch) returns NaN and nothing else
C20_FloatFailureIsNaN ==
    (Failed /\ op.acc \in FloatAccessors) => out = <<NAN>>

\* C21: getAddress returns 0xFF whenever its read transaction failed
C21_GetAddressSentinel ==
    (Failed /\ op.acc = "getAddress") => out = <<IntValue(255)>>

\* how the receive loop of the running call failed, from what it read
FailureKind ==
    CASE consumed = <<>> -> "NoResponse"
      [] ~foundSlaveAddr -> "AddressNeverSeen"
      [] responseLength < MinBytesExpected(op) -> "Truncated"
      [] OTHER -> "None"

\* all the caller gets from an operation: the bool it returns
Reported == IF result THEN "Complete" ELSE "Failed"

\* C22: when the receive loop ran out of time, the result tells the caller
\* whether no byte arrived, bytes arrived without the address, or the
\* response stayed too short
C22_FailureKindsReported ==
    (pc = "done" /\ txCount > 0 /\ exitKind = "timeout" /\ FailureKind # "None") =>
        Reported = FailureKind

\* C23: the bytes found in the input stream at the call are read away before
\* the request is written, and every byte the receive loop reads afterwards
\* belongs to what the bus delivered after that request
C23_StaleDiscarded ==
    /\ pc \in {"txen", "write"} =>
           (rx = <<>> /\ readCount = 0 /\ responseLength = 0)
    /\ (drained /\ pc \in {"flush", "rxen", "loop", "validate", "extract", "done"}) =>
           \E f \in Replies(op, TRUE) : consumed \o rx \o pending = f

\* a call that found stale bytes in the stream has returned true on the reply
C23_Witness ==
    /\ drained
    /\ pc = "done"
    /\ result
    /\ Buffer = ExpectedReply(op)

\* C24: a call writes its request to the stream at most once, and what it
\* has written is one request frame, however the call ends
C24_NoRetry ==
    /\ txCount <= 1
    /\ txCount = 0 => tx = <<>>
    /\ txCount = 1 => tx \in RequestOutcomes(op)

\* a call has failed on a timeout after writing its request once
C24_Witness ==
    /\ pc = "done"
    /\ ~result
    /\ exitKind = "timeout"
    /\ txCount = 1
    /\ tx = Request(op)

\* C25: every operation that was called eventually returns to its caller
C25_EventuallyReturns == (pc # "idle") ~> (pc = "idle")

\* C26: the wait for the response of every operation is bounded by the
\* session's response timeout: a wait that ran out of time has lasted that
\* long, give or take one poll of the loop
C26_SessionTimeoutBounds ==
    (pc = "validate" /\ exitKind = "timeout") =>
        /\ now - startTime >= responseTimeout
        /\ now - startTime <= responseTimeout + IdleGap + 1

\* C27: readAll hands out cached values without a bus transaction only when
\* the sample time T is positive, the cache holds a successful read and less
\* than T ms have passed since that read; otherwise it reads the device
C27_CacheWindow ==
    (pc = "done" /\ op.acc = "readAllSampleTime" /\ txCount = 0) =>
        /\ cache.sampleTimeMs > 0
        /\ cache.age < cache.sampleTimeMs
        /\ cache.valid

\* a reset operation of the transport has returned
ResetDone == pc = "done" /\ op.fn \in {"resetEnergy", "resetEnergyPhase"}

\* the frame a reset is to put on the wire, byte by byte
ResetFrame(o) ==
    LET body == IF o.fn = "resetEnergy" THEN <<o.addr, 66>>
                ELSE <<o.addr, 66, 0, o.arg>>
        crc  == calculateCRC16(body, Len(body))
    IN  body \o <<crc % 256, crc \div 256>>

ValidRanges == {50, 100, 200, 300}

\* the register value of a single-register write request
WrittenCode(frame) == (frame[5] * 256) + frame[6]

\* C29: for each range r in {50, 100, 200, 300}, setCurrentRange(r) writes a
\* register code that getCurrentRange maps back to r; any other range is
\* rejected with false and no bus traffic; an unknown register code or a
\* failed read makes getCurrentRange return NAN, never a valid range
C29_RangeRoundTrip ==
    /\ (pc = "done" /\ op.acc = "setCurrentRange") =>
           IF op.arg \in ValidRanges
           THEN /\ txCount = 1
                /\ Len(tx) = 8
                /\ tx[2] = 6
                /\ (tx[3] * 256) + tx[4] = 3
                /\ getCurrentRange(TRUE, <<WrittenCode(tx)>>) = IntValue(op.arg)
           ELSE result = FALSE /\ txCount = 0 /\ tx = <<>>
    /\ (pc = "done" /\ op.acc = "getCurrentRange") =>
           /\ result = FALSE => out = <<NAN>>
           /\ (result = TRUE /\ \A r \in ValidRanges :
                   getCurrentRange(TRUE, data) # IntValue(r)) => out = <<NAN>>
           /\ out # <<NAN>> => \E r \in ValidRanges : out = <<IntValue(r)>>

\* setCurrentRange(300) was acknowledged with code 3 on the wire
C29_Witness ==
    /\ pc = "done" /\ op.acc = "setCurrentRange" /\ op.arg = 300
    /\ result = TRUE
    /\ WrittenCode(tx) = 3

\* the received buffer is the reply a read of op.n registers expects: the
\* exception bit clear, byteCount = 2 * numRegs, 5 + 2 * numRegs bytes, CRC valid
WellFormedRead ==
    /\ Finished /\ IsRead(op.fn)
    /\ responseLength = 5 + (2 * op.n)
    /\ response[1] = op.addr
    /\ BitAnd(response[2], 128) = 0
    /\ response[3] = 2 * op.n
    /\ verifyCRC16(response, responseLength)

\* the register array written out of the bytes of a buffer alone
Decoded(buf, n, be) ==
    [k \in 1..n |-> IF be THEN (buf[(2 * k) + 2] * 256) + buf[(2 * k) + 3]
                    ELSE buf[(2 * k) + 2] + (buf[(2 * k) + 3] * 256)]

\* C30: decoding is a function of the response bytes and the request
\* parameters alone: a read that received a well-formed response returns true
\* with every element of data[] computed from those bytes, none left at its
\* prior content, whatever transactions ran before
C30_DecodePure ==
    WellFormedRead =>
        /\ pc = "done"
        /\ result = TRUE
        /\ data = Decoded(Buffer, op.n, op.be)

\* a two-register read, low byte first, has decoded its well-formed reply
C30_Witness ==
    /\ WellFormedRead
    /\ pc = "done"
    /\ op.n = 2 /\ ~op.be
    /\ data = <<2200, 65526>>

\* C31: when a read of numRegs registers returns true, every element
\* data[0 .. numRegs - 1] was assigned in that call from the bytes of its
\* response; none is left at its previous value
C31_SuccessAssignsAll ==
    (pc = "done" /\ IsRead(op.fn) /\ result = TRUE) =>
        \A k \in 1..Len(data) : data[k] # Unwritten

\* C32: with a sample time greater than 0, readAll returns true only if a
\* device read has succeeded since construction, and what it hands out are the
\* values of such a read, never members that were not populated
C32_CachePopulated ==
    (pc = "done" /\ op.acc = "readAllSampleTime" /\ result = TRUE
       /\ cache.sampleTimeMs > 0) =>
        /\ cache.valid
        /\ out = cache.values

\* C33: the minimum expected response length of a read of numRegs registers
\* is 5 + 2 * numRegs for every numRegs the operation accepts, with no
\* wrap-around
C33_MinExpectedLength ==
    (pc \in {"loop", "validate", "extract", "done"} /\ IsRead(op.fn) /\ txCount > 0) =>
        MinBytesExpected(op) = 5 + (2 * op.n)

\* C34: setEnable(pin) on a freshly constructed session returns true, records
\* pin as the direction line and leaves that line low
C34_SetEnableSucceeds ==
    (pc = "idle" /\ op.acc = "setEnable") =>
        /\ result = TRUE
        /\ rs485_en = op.arg
        /\ pinLevel[op.arg] = "LOW"

\* C35: the session's slave address changes only when setAddress(a) with a in
\* 0x01..0xF7 returns true, and then becomes a; a rejected or failed
\* setAddress leaves it unchanged; every transaction is addressed to the value
\* the session holds when the call is made
C35_AddressFrame ==
    [][ /\ slaveAddr' # slaveAddr =>
             /\ op.acc = "setAddress"
             /\ op.arg \in 1..247
             /\ pc' = "done" /\ result' = TRUE
             /\ slaveAddr' = op.arg
        /\ (op'.acc = "setAddress" /\ pc # "done" /\ pc' = "done" /\ result' = FALSE) =>
             slaveAddr' = slaveAddr
        /\ (pc = "idle" /\ pc' # "idle") => op'.addr = slaveAddr
        /\ txCount' = 1 => tx'[1] = op'.addr
      ]_vars

\* a read goes to the address an earlier setAddress(2) stored
C35_Witness ==
    /\ op.acc = "readVoltage"
    /\ slaveAddr = 2
    /\ txCount = 1
    /\ tx[1] = 2

\* C36: a read returns true only with the device's reply to that same
\* request in its buffer; the reply to an earlier request that timed out,
\* arriving after the input buffer was cleared, is never taken for it
C36_OwnReplyOnly ==
    (pc = "done" /\ op.acc = "RS485" /\ IsRead(op.fn) /\ result = TRUE) =>
        Buffer = ExpectedReply(op)

\* C37: a transaction returns true only if the function-code byte of the
\* response it accepted equals the function code of the request it sent
C37_FunctionCodeEchoed ==
    (pc = "done" /\ op.acc = "RS485" /\ txCount = 1 /\ result = TRUE) =>
        /\ responseLength >= 2
        /\ response[2] = FunctionCode(op.fn)

\* C38: for each byte order, the two value bytes writeSingleRegister puts on
\* the wire for v decode back to v when a read with the same byte order
\* extracts a register from them, for every v in 0..0xFFFF
C38_ValueRoundTrip ==
    calc.fn = "decoded" => (calc.value.hi = 0 /\ calc.value.lo = calc.int)

\* 0x1234 went out low byte first and came back
C38_Witness ==
    /\ calc.fn = "decoded"
    /\ calc.order = "little_endian"
    /\ calc.int = 4660
    /\ calc.args = <<52, 18>>
    /\ calc.value.lo = 4660

\* C39: in a receive loop the stored length stays within the buffer, a byte
\* that arrives when the buffer is full is dropped, the length never decreases
\* and no byte already stored is overwritten, however many bytes arrive
C39_BufferAppendOnly ==
    [][ (pc = "loop" /\ pc' \in {"loop", "validate"}) =>
            /\ responseLength' >= responseLength
            /\ responseLength' <= ResponseSize(op)
            /\ \A i \in 1..responseLength : response'[i] = response[i]
      ]_vars

====
